---------------------------- MODULE Spec2Model ----------------------------
(***************************************************************************)
(* A model of diligent_tbench/agent.py, the Harbor adapter of the diligent *)
(* coding agent (class DiligentAgent):                                     *)
(*   _resolve_binary_path        the Binary Resolver     (SpecResolve)     *)
(*   create_run_agent_commands   the Invocation Builder  (SpecBuild)       *)
(*   populate_context_post_run   the Usage Aggregator    (SpecAggregate,   *)
(*                               and SpecShapes over lines of more shapes) *)
(*                                                                         *)
(* Strings are sequences of one-character strings, so that str.split can   *)
(* be computed; paths are sequences of path components.  An Optional value *)
(* is a set of at most one element: None is {} and a value x is {x}.       *)
(***************************************************************************)
EXTENDS Integers, Sequences, FiniteSets, TLC

VARIABLES
    \* ---- the process environment and the agent's fields
    environ,        \* os.environ: a function from variable names to strings
    model_name,     \* self.model_name: None or a string
    extra_env,      \* self._extra_env: a function from names to strings
    \* ---- the file system and git, as _resolve_binary_path sees them
    fs,             \* the set of paths for which Path.exists() is true
    git,            \* what `git rev-parse --show-toplevel` does
    \* ---- _resolve_binary_path
    rpc,            \* position in _resolve_binary_path
    env_path,       \* local env_path (line 39)
    repo_root,      \* local repo_root (line 48)
    git_called,     \* whether subprocess.check_output has been run
    result,         \* what the call returned or raised
    \* ---- create_run_agent_commands
    bpc,            \* position in create_run_agent_commands
    ki,             \* index of the next key of the for loop of line 69
    env,            \* local env (line 66): the overlay being built
    commands,       \* the returned list of ExecInput, or None
    prev_env,       \* the overlay of the previous call, or None
    \* ---- the sessions directory and populate_context_post_run
    sessions_exists,\* whether logs_dir/sessions exists
    files,          \* the directory: file name -> sequence of lines
    context,        \* the AgentContext handed to the call
    apc,            \* position in populate_context_post_run
    todo,           \* the files glob has still to yield
    cur,            \* the file being read, or None
    li,             \* index of the next line of cur
    total_input, total_output, total_cache,     \* the locals of lines 106-108
    visited,        \* the files glob has yielded in this call, in order
    prev_run        \* how the previous call on this context ended, or None

envVars   == <<environ, model_name, extra_env>>
worldVars == <<fs, git>>
rVars     == <<rpc, env_path, repo_root, git_called, result>>
bVars     == <<bpc, ki, env, commands, prev_env>>
dirVars   == <<sessions_exists, files>>
aVars     == <<context, apc, todo, cur, li, total_input, total_output, total_cache,
               visited, prev_run>>
vars      == <<envVars, worldVars, rVars, bVars, dirVars, aVars>>
\* What each of the three methods leaves alone.
notResolve   == <<envVars, worldVars, bVars, dirVars, aVars>>
notBuild     == <<worldVars, rVars, dirVars, aVars>>
notAggregate == <<envVars, worldVars, rVars, bVars, dirVars>>

\* Optional[T]: None, or Some(x) for a value x; The(o) is the value of o.
None == {}
Some(x) == {x}
The(o) == CHOOSE x \in o : TRUE

\* The empty mapping ({} in Python).
EmptyMap == <<>>

\* dict.update / item assignment: m with the entries of n laid over it.
Update(m, n) ==
    [k \in (DOMAIN m) \cup (DOMAIN n) |-> IF k \in DOMAIN n THEN n[k] ELSE m[k]]

\* All functions from a subset of keys to vals.
Maps(keys, vals) == UNION {[d -> vals] : d \in SUBSET keys}

\* Python truthiness of an Optional[str]: None and "" are false.
Truthy(o) == o # None /\ The(o) # <<>>

-----------------------------------------------------------------------------
(***************************************************************************)
(* _resolve_binary_path (lines 32-61)                                      *)
(***************************************************************************)

\* The paths of the model.  Path("") is ".", which always exists.
CurDir        == <<>>
OptBinary     == <<"opt", "diligent-linux-x64">>
RepoRoot      == <<"repo">>
OtherRoot     == <<"work">>
\* Path(repo_root) / "dist" / "diligent-linux-x64" (line 52)
Candidate(root) == root \o <<"dist", "diligent-linux-x64">>

OverridePaths == {CurDir, OptBinary, Candidate(RepoRoot)}
FsPaths       == {OptBinary, Candidate(RepoRoot), Candidate(OtherRoot)}

\* Path.exists()
Exists(p) == p = CurDir \/ p \in fs

\* What check_output(["git", "rev-parse", "--show-toplevel"]) does: it
\* returns the working-tree root, or raises CalledProcessError (not inside a
\* working tree) or FileNotFoundError (no git executable).
GitOutcomes ==
    {[root |-> RepoRoot], [root |-> OtherRoot],
     [raises |-> "CalledProcessError"], [raises |-> "FileNotFoundError"]}

\* The call has neither returned nor raised yet.
Pending == [pending |-> TRUE]

\* The two FileNotFoundError of the function, with what each message names.
OverrideMissingError(p) ==
    [raises |-> "FileNotFoundError",
     path |-> p,
     names |-> {"DILIGENT_BINARY_PATH"}]

CannotFindError ==
    [raises |-> "FileNotFoundError",
     names |-> {"DILIGENT_BINARY_PATH", "bun run build:linux-x64"}]

\* line 39: env_path = os.environ.get("DILIGENT_BINARY_PATH")
ReadOverride ==
    /\ rpc = "start"
    /\ env_path' = IF "DILIGENT_BINARY_PATH" \in DOMAIN environ
                   THEN Some(environ["DILIGENT_BINARY_PATH"]) ELSE None
    /\ rpc' = "override"
    /\ UNCHANGED <<repo_root, git_called, result>>
    /\ UNCHANGED notResolve

\* A resolver that treats a missing override as a reason to fall back.
CheckOverride_fallback ==
    /\ rpc = "override"
    /\ IF Truthy(env_path) /\ Exists(The(env_path))
       THEN rpc' = "done" /\ result' = [returns |-> The(env_path)]
       ELSE rpc' = "git" /\ UNCHANGED result
    /\ UNCHANGED <<env_path, repo_root, git_called>>
    /\ UNCHANGED notResolve

\* lines 40-44: a configured override is returned if it exists and is a hard
\* error if it does not; only an unset or empty override goes on to git.
CheckOverride ==
    /\ rpc = "override"
    /\ IF Truthy(env_path)
       THEN /\ rpc' = "done"
            /\ result' = IF Exists(The(env_path))
                         THEN [returns |-> The(env_path)]
                         ELSE OverrideMissingError(The(env_path))
       ELSE rpc' = "git" /\ UNCHANGED result
    /\ UNCHANGED <<env_path, repo_root, git_called>>
    /\ UNCHANGED notResolve

\* lines 47-51 and 55-56: run git; either exception leaves the try block.
GitRevParse ==
    /\ rpc = "git"
    /\ git_called' = TRUE
    /\ IF "root" \in DOMAIN git
       THEN repo_root' = Some(git.root) /\ rpc' = "candidate"
       ELSE repo_root' = repo_root /\ rpc' = "notfound"
    /\ UNCHANGED <<env_path, result>>
    /\ UNCHANGED notResolve

\* A resolver that returns the candidate without looking.
CheckCandidate_unchecked ==
    /\ rpc = "candidate"
    /\ rpc' = "done"
    /\ result' = [returns |-> Candidate(The(repo_root))]
    /\ UNCHANGED <<env_path, repo_root, git_called>>
    /\ UNCHANGED notResolve

\* lines 52-54: the candidate under the working-tree root, if it exists.
CheckCandidate ==
    /\ rpc = "candidate"
    /\ IF Exists(Candidate(The(repo_root)))
       THEN rpc' = "done" /\ result' = [returns |-> Candidate(The(repo_root))]
       ELSE rpc' = "notfound" /\ UNCHANGED result
    /\ UNCHANGED <<env_path, repo_root, git_called>>
    /\ UNCHANGED notResolve

\* lines 58-61
RaiseNotFound ==
    /\ rpc = "notfound"
    /\ rpc' = "done"
    /\ result' = CannotFindError
    /\ UNCHANGED <<env_path, repo_root, git_called>>
    /\ UNCHANGED notResolve

-----------------------------------------------------------------------------
(***************************************************************************)
(* create_run_agent_commands (lines 63-98)                                 *)
(***************************************************************************)

\* The longest model identifier of the model, in characters.
MaxModelLen == 3

\* The characters of a model identifier, and all identifiers up to n long.
ModelChars == {"m", "/"}
StringsUpTo(n) == UNION {[1..k -> ModelChars] : k \in 0..n}

\* The variables of the ambient environment, and the values they take.
AmbientNames  == {"ANTHROPIC_API_KEY", "OPENAI_API_KEY", "DILIGENT_MODEL",
                  "AWS_SECRET_ACCESS_KEY"}
AmbientValues == {<<"k">>, <<"s">>}
\* The keys and the values of the extra environment given to the constructor.
ExtraNames    == {"ANTHROPIC_API_KEY", "DILIGENT_MODEL", "TERM"}
ExtraValues   == {<<"x">>}

\* line 69: the tuple the for loop runs over
ForwardKeys == <<"ANTHROPIC_API_KEY", "OPENAI_API_KEY">>

\* c in s
Contains(s, c) == \E i \in 1..Len(s) : s[i] = c

\* s.find(c) from position i on, 1-based; 0 when c does not occur.
RECURSIVE Find(_, _, _)
Find(s, c, i) ==
    IF i > Len(s) THEN 0
    ELSE IF s[i] = c THEN i
    ELSE Find(s, c, i + 1)

\* s.split(c, 1): cut at the first c only.
Split1(s, c) ==
    LET i == Find(s, c, 1)
    IN  IF i = 0 THEN <<s>>
        ELSE <<SubSeq(s, 1, i - 1), SubSeq(s, i + 1, Len(s))>>

\* s.split(c): cut at every c.
RECURSIVE SplitAll(_, _)
SplitAll(s, c) ==
    LET i == Find(s, c, 1)
    IN  IF i = 0 THEN <<s>>
        ELSE <<SubSeq(s, 1, i - 1)>> \o SplitAll(SubSeq(s, i + 1, Len(s)), c)

\* A derivation that cuts at every '/' and keeps the second piece.
ModelId_splitall(name) ==
    IF Contains(name, "/") THEN SplitAll(name, "/")[2] ELSE name

\* lines 76-78: the model identifier without its provider prefix.
ModelId(name) ==
    IF Contains(name, "/") THEN Split1(name, "/")[2] ELSE name

\* lines 64-66: env starts empty
BuildEnter ==
    /\ bpc = "start"
    /\ env' = EmptyMap
    /\ ki' = 1
    /\ bpc' = "forward"
    /\ commands' = None
    /\ UNCHANGED <<envVars, prev_env>>
    /\ UNCHANGED notBuild

\* A builder that copies the whole ambient environment.
ForwardKey_wildcard ==
    /\ bpc = "forward"
    /\ env' = Update(env, environ)
    /\ ki' = ki + 1
    /\ bpc' = IF ki = Len(ForwardKeys) THEN "model" ELSE "forward"
    /\ UNCHANGED <<envVars, commands, prev_env>>
    /\ UNCHANGED notBuild

\* lines 69-71: one turn of the loop over the allow-list
ForwardKey ==
    /\ bpc = "forward"
    /\ LET key == ForwardKeys[ki]
       IN  env' = IF key \in DOMAIN environ
                  THEN Update(env, [k \in {key} |-> environ[key]])
                  ELSE env
    /\ ki' = ki + 1
    /\ bpc' = IF ki = Len(ForwardKeys) THEN "model" ELSE "forward"
    /\ UNCHANGED <<envVars, commands, prev_env>>
    /\ UNCHANGED notBuild

\* lines 74-79
DeriveModel ==
    /\ bpc = "model"
    /\ env' = IF Truthy(model_name)
              THEN Update(env, [k \in {"DILIGENT_MODEL"} |-> ModelId(The(model_name))])
              ELSE env
    /\ bpc' = "extra"
    /\ UNCHANGED <<envVars, ki, commands, prev_env>>
    /\ UNCHANGED notBuild

\* A builder that lets what it has gathered win over the extra environment.
UpdateExtra_under ==
    /\ bpc = "extra"
    /\ env' = Update(extra_env, env)
    /\ bpc' = "return"
    /\ UNCHANGED <<envVars, ki, commands, prev_env>>
    /\ UNCHANGED notBuild

\* line 82: env.update(self._extra_env)
UpdateExtra ==
    /\ bpc = "extra"
    /\ env' = Update(env, extra_env)
    /\ bpc' = "return"
    /\ UNCHANGED <<envVars, ki, commands, prev_env>>
    /\ UNCHANGED notBuild

\* lines 86-98: the agent run with the overlay, then the log collection
BuildReturn ==
    /\ bpc = "return"
    /\ commands' = Some(<<[step |-> "run", env |-> Some(env), timeout_sec |-> 600],
                          [step |-> "collect", env |-> None, timeout_sec |-> 30]>>)
    /\ bpc' = "done"
    /\ UNCHANGED <<envVars, ki, env, prev_env>>
    /\ UNCHANGED notBuild

\* Whether two environments agree on the variables of the allow-list.
AgreeOnForwardKeys(e1, e2) ==
    \A i \in 1..Len(ForwardKeys) :
        LET key == ForwardKeys[i]
        IN  /\ (key \in DOMAIN e1) = (key \in DOMAIN e2)
            /\ key \in DOMAIN e1 => e1[key] = e2[key]

\* The harness calls the method again, the ambient environment having
\* changed in the variables that are not on the allow-list.
BuildAgain ==
    /\ bpc = "done"
    /\ prev_env' = The(commands)[1].env
    /\ \E e \in Maps(AmbientNames, AmbientValues) :
          /\ AgreeOnForwardKeys(e, environ)
          /\ e # environ
          /\ environ' = e
    /\ bpc' = "start"
    /\ UNCHANGED <<model_name, extra_env, ki, env, commands>>
    /\ UNCHANGED notBuild

-----------------------------------------------------------------------------
(***************************************************************************)
(* populate_context_post_run (lines 100-135)                               *)
(*                                                                         *)
(* A line of a session log is modelled by what line.strip() and json.loads *)
(* make of it: blank, not parseable, or a JSON value.  A JSON value is a   *)
(* record with one field that tells its kind; an object is a function from *)
(* its keys to JSON values.  Numbers are integers.                         *)
(***************************************************************************)

\* The most lines the *.jsonl files of the sessions directory hold together.
MaxLines == 3
\* The same, for the directories of SpecShapes.
MaxShapeLines == 2

JNull   == [null |-> TRUE]
JArray  == [arr |-> <<>>]
JNum(n) == [num |-> n]
JStr(t) == [str |-> t]
JObj(f) == [obj |-> f]

IsObj(v) == DOMAIN v = {"obj"}
IsNum(v) == DOMAIN v = {"num"}

\* dict.get(key, default)
Get(o, key, default) == IF key \in DOMAIN o.obj THEN o.obj[key] ELSE default

BlankLine     == [blank |-> TRUE]
MalformedLine == [malformed |-> TRUE]
JsonLine(v)   == [json |-> v]

\* {"type": type, "message": {"role": role, "usage": usage}}
Message(type, role, usage) ==
    JsonLine(JObj([type |-> JStr(type),
                   message |-> JObj([role |-> JStr(role), usage |-> JObj(usage)])]))

\* The lines of the model.
NotAnObject  == JsonLine(JArray)
UserLine     == Message("message", "user",
                        [inputTokens |-> JNum(7), outputTokens |-> JNum(7),
                         cacheReadTokens |-> JNum(7), cacheWriteTokens |-> JNum(7)])
SummaryLine  == Message("summary", "assistant",
                        [inputTokens |-> JNum(7), outputTokens |-> JNum(7),
                         cacheReadTokens |-> JNum(7), cacheWriteTokens |-> JNum(7)])
AssistantA   == Message("message", "assistant",
                        [inputTokens |-> JNum(10), outputTokens |-> JNum(5)])
AssistantB   == Message("message", "assistant",
                        [inputTokens |-> JNum(3), outputTokens |-> JNum(2),
                         cacheReadTokens |-> JNum(1)])
AssistantC   == Message("message", "assistant",
                        [cacheReadTokens |-> JNum(0), cacheWriteTokens |-> JNum(2)])
NoUsage      == JsonLine(JObj([type |-> JStr("message"),
                               message |-> JObj([role |-> JStr("assistant")])]))
NoMessage    == JsonLine(JObj([type |-> JStr("message")]))
NoType       == JsonLine(JObj([message |-> JObj([role |-> JStr("assistant")])]))
NullMessage  == JsonLine(JObj([type |-> JStr("message"), message |-> JNull]))
NullUsage    == JsonLine(JObj([type |-> JStr("message"),
                               message |-> JObj([role |-> JStr("assistant"),
                                                 usage |-> JNull])]))
StringTokens == Message("message", "assistant",
                        [inputTokens |-> JNum(1), outputTokens |-> JStr("12")])

UsageLines == {BlankLine, MalformedLine, NotAnObject, UserLine, SummaryLine,
               AssistantA, AssistantB, AssistantC}
ShapeLines == {BlankLine, MalformedLine, NotAnObject, NoUsage, NoMessage, NoType,
               NullMessage, NullUsage, StringTokens, AssistantB}

\* The files of the sessions directory: <<stem, suffix>>.
FileA     == <<"a", "jsonl">>
FileB     == <<"b", "jsonl">>
NotesFile == <<"notes", "txt">>

\* Path.glob("*.jsonl")
Glob(fileset) == {f \in fileset : f[2] = "jsonl"}

\* What the body of the loop over the lines (lines 113-131) does with one
\* line: nothing (continue), raise, or add to the three totals.
Continue == [continue |-> TRUE]
Raise(e) == [raises |-> e]

\* A body that does not look at the role of the message.
Effect_anyrole(line) ==
    IF "blank" \in DOMAIN line \/ "malformed" \in DOMAIN line THEN Continue
    ELSE LET entry == line.json
         IN  IF ~IsObj(entry) THEN Raise("AttributeError")
             ELSE IF Get(entry, "type", JNull) # JStr("message") THEN Continue
             ELSE LET msg == Get(entry, "message", JObj(EmptyMap))
                  IN  IF ~IsObj(msg) THEN Raise("AttributeError")
                      ELSE LET usage == Get(msg, "usage", JObj(EmptyMap))
                           IN  IF ~IsObj(usage) THEN Raise("AttributeError")
                               ELSE [input  |-> Get(usage, "inputTokens", JNum(0)).num,
                                     output |-> Get(usage, "outputTokens", JNum(0)).num,
                                     cache  |-> Get(usage, "cacheReadTokens", JNum(0)).num
                                              + Get(usage, "cacheWriteTokens", JNum(0)).num]

Effect(line) ==
    \* lines 113-115: a blank line; lines 116-119: JSONDecodeError is caught
    IF "blank" \in DOMAIN line \/ "malformed" \in DOMAIN line THEN Continue
    ELSE LET entry == line.json
         IN  \* line 121: entry.get exists on a dict only
             IF ~IsObj(entry) THEN Raise("AttributeError")
             ELSE IF Get(entry, "type", JNull) # JStr("message") THEN Continue
             ELSE LET msg == Get(entry, "message", JObj(EmptyMap))
                  IN  \* line 124
                      IF ~IsObj(msg) THEN Raise("AttributeError")
                      ELSE IF Get(msg, "role", JNull) # JStr("assistant") THEN Continue
                      ELSE LET usage == Get(msg, "usage", JObj(EmptyMap))
                               inp == Get(usage, "inputTokens", JNum(0))
                               out == Get(usage, "outputTokens", JNum(0))
                               crd == Get(usage, "cacheReadTokens", JNum(0))
                               cwr == Get(usage, "cacheWriteTokens", JNum(0))
                           IN  \* line 127-128
                               IF ~IsObj(usage) THEN Raise("AttributeError")
                               \* lines 128-131: int += a value that is no number
                               ELSE IF ~IsNum(inp) \/ ~IsNum(out) \/ ~IsNum(crd)
                                       \/ ~IsNum(cwr)
                               THEN Raise("TypeError")
                               ELSE [input  |-> inp.num, output |-> out.num,
                                     cache  |-> crd.num + cwr.num]

\* An aggregator that reports zero totals when the directory is missing.
AggEnter_zero ==
    /\ apc = "start"
    /\ IF ~sessions_exists
       THEN /\ apc' = "returned"
            /\ context' = [n_input_tokens |-> Some(0), n_output_tokens |-> Some(0),
                       n_cache_tokens |-> None]
            /\ UNCHANGED <<todo, total_input, total_output, total_cache>>
       ELSE /\ apc' = "glob"
            /\ todo' = Glob(DOMAIN files)
            /\ total_input' = 0
            /\ total_output' = 0
            /\ total_cache' = 0
            /\ UNCHANGED context
    /\ visited' = <<>>
    /\ UNCHANGED <<cur, li, prev_run>>
    /\ UNCHANGED notAggregate

\* lines 102-108: return at once when the directory is missing
AggEnter ==
    /\ apc = "start"
    /\ IF ~sessions_exists
       THEN /\ apc' = "returned"
            /\ UNCHANGED <<todo, total_input, total_output, total_cache>>
       ELSE /\ apc' = "glob"
            /\ todo' = Glob(DOMAIN files)
            /\ total_input' = 0
            /\ total_output' = 0
            /\ total_cache' = 0
    /\ visited' = <<>>
    /\ UNCHANGED <<context, cur, li, prev_run>>
    /\ UNCHANGED notAggregate

\* An aggregator that starts its totals afresh with every file.
NextFile_reset ==
    /\ apc = "glob"
    /\ \E f \in todo :
          /\ cur' = Some(f)
          /\ todo' = todo \ {f}
          /\ visited' = Append(visited, f)
    /\ li' = 1
    /\ apc' = "lines"
    /\ total_input' = 0
    /\ total_output' = 0
    /\ total_cache' = 0
    /\ UNCHANGED <<context, prev_run>>
    /\ UNCHANGED notAggregate

\* lines 110-111: glob yields the files in no particular order
NextFile ==
    /\ apc = "glob"
    /\ \E f \in todo :
          /\ cur' = Some(f)
          /\ todo' = todo \ {f}
          /\ visited' = Append(visited, f)
    /\ li' = 1
    /\ apc' = "lines"
    /\ UNCHANGED <<context, total_input, total_output, total_cache, prev_run>>
    /\ UNCHANGED notAggregate

\* lines 112-131: one line of the current file
ReadLine ==
    /\ apc = "lines"
    /\ li <= Len(files[The(cur)])
    /\ LET e == Effect(files[The(cur)][li])
       IN  IF "raises" \in DOMAIN e
           THEN /\ apc' = "raised"
                /\ UNCHANGED <<li, total_input, total_output, total_cache>>
           ELSE IF "continue" \in DOMAIN e
           THEN /\ li' = li + 1
                /\ UNCHANGED <<apc, total_input, total_output, total_cache>>
           ELSE /\ li' = li + 1
                /\ total_input' = total_input + e.input
                /\ total_output' = total_output + e.output
                /\ total_cache' = total_cache + e.cache
                /\ UNCHANGED apc
    /\ UNCHANGED <<context, todo, cur, visited, prev_run>>
    /\ UNCHANGED notAggregate

\* line 112: the file is exhausted
EndOfFile ==
    /\ apc = "lines"
    /\ li > Len(files[The(cur)])
    /\ apc' = "glob"
    /\ cur' = None
    /\ UNCHANGED <<context, todo, li, total_input, total_output, total_cache, visited,
                   prev_run>>
    /\ UNCHANGED notAggregate

\* An aggregator that reports the cache total as it is.
WriteContext_plain ==
    /\ apc = "glob"
    /\ todo = {}
    /\ context' = [n_input_tokens  |-> Some(total_input),
               n_output_tokens |-> Some(total_output),
               n_cache_tokens  |-> Some(total_cache)]
    /\ apc' = "returned"
    /\ UNCHANGED <<todo, cur, li, total_input, total_output, total_cache, visited,
                   prev_run>>
    /\ UNCHANGED notAggregate

\* lines 133-135
WriteContext ==
    /\ apc = "glob"
    /\ todo = {}
    /\ context' = [n_input_tokens  |-> Some(total_input),
               n_output_tokens |-> Some(total_output),
               n_cache_tokens  |-> IF total_cache > 0 THEN Some(total_cache) ELSE None]
    /\ apc' = "returned"
    /\ UNCHANGED <<todo, cur, li, total_input, total_output, total_cache, visited,
                   prev_run>>
    /\ UNCHANGED notAggregate

\* The harness calls the method again on the same context and directory.
AggregateAgain ==
    /\ apc \in {"returned", "raised"}
    /\ prev_run' = Some([outcome |-> apc, context |-> context, visited |-> visited])
    /\ apc' = "start"
    /\ cur' = None
    /\ li' = 1
    /\ UNCHANGED <<context, todo, total_input, total_output, total_cache, visited>>
    /\ UNCHANGED notAggregate

\* An AgentContext as constructed, and one that already holds numbers.
FreshContext == [n_input_tokens |-> None, n_output_tokens |-> None,
                 n_cache_tokens |-> None]
UsedContext  == [n_input_tokens |-> Some(40), n_output_tokens |-> Some(41),
                 n_cache_tokens |-> Some(42)]

\* The sequences over S of length n, and the ways of laying at most n lines
\* of S into the two *.jsonl files.
Seqs(S, n) == [1..n -> S]
Layouts(S, n) ==
    UNION {UNION {{[f \in {FileA, FileB} |-> IF f = FileA THEN a ELSE b] :
                       a \in Seqs(S, na), b \in Seqs(S, nb)} : na \in 0..(n - nb)} :
           nb \in 0..n}

\* The sessions directories of the model: missing, empty, holding only a
\* file that glob does not match, or holding the two *.jsonl files beside it.
Directories(S, n) ==
    {[exists |-> FALSE, files |-> EmptyMap], [exists |-> TRUE, files |-> EmptyMap],
     [exists |-> TRUE, files |-> [f \in {NotesFile} |-> <<AssistantA>>]]}
    \cup {[exists |-> TRUE,
           files |-> [f \in {FileA, FileB, NotesFile} |->
                         IF f = NotesFile THEN <<AssistantA>> ELSE l[f]]] :
          l \in Layouts(S, n)}

ResolveIdle ==
    /\ fs = {}
    /\ git = [raises |-> "FileNotFoundError"]
    /\ rpc = "idle"
    /\ env_path = None
    /\ repo_root = None
    /\ git_called = FALSE
    /\ result = Pending

BuildIdle ==
    /\ model_name = None
    /\ extra_env = EmptyMap
    /\ bpc = "idle"
    /\ ki = 1
    /\ env = EmptyMap
    /\ commands = None
    /\ prev_env = None

AggregateIdle ==
    /\ sessions_exists = FALSE
    /\ files = EmptyMap
    /\ context = FreshContext
    /\ apc = "idle"
    /\ todo = {}
    /\ cur = None
    /\ li = 1
    /\ total_input = 0
    /\ total_output = 0
    /\ total_cache = 0
    /\ visited = <<>>
    /\ prev_run = None

ResolveInit ==
    /\ environ \in Maps({"DILIGENT_BINARY_PATH"}, OverridePaths)
    /\ fs \in SUBSET FsPaths
    /\ git \in GitOutcomes
    /\ rpc = "start"
    /\ env_path = None
    /\ repo_root = None
    /\ git_called = FALSE
    /\ result = Pending
    /\ model_name = None /\ extra_env = EmptyMap
    /\ bpc = "idle" /\ ki = 1 /\ env = EmptyMap /\ commands = None
    /\ prev_env = None
    /\ AggregateIdle

ResolveNext ==
    \/ ReadOverride
    \/ CheckOverride
    \/ GitRevParse
    \/ CheckCandidate
    \/ RaiseNotFound

SpecResolve == ResolveInit /\ [][ResolveNext]_vars

BuildInit ==
    /\ environ \in Maps(AmbientNames, AmbientValues)
    /\ model_name \in {None} \cup {Some(s) : s \in StringsUpTo(MaxModelLen)}
    /\ extra_env \in Maps(ExtraNames, ExtraValues)
    /\ bpc = "start"
    /\ ki = 1
    /\ env = EmptyMap
    /\ commands = None
    /\ prev_env = None
    /\ ResolveIdle
    /\ AggregateIdle

BuildNext ==
    \/ BuildEnter
    \/ ForwardKey
    \/ DeriveModel
    \/ UpdateExtra
    \/ BuildReturn
    \/ BuildAgain

SpecBuild == BuildInit /\ [][BuildNext]_vars

AggregateInitOver(S, n) ==
    /\ \E d \in Directories(S, n) :
          /\ sessions_exists = d.exists
          /\ files = d.files
    /\ context \in {FreshContext, UsedContext}
    /\ apc = "start"
    /\ todo = {}
    /\ cur = None
    /\ li = 1
    /\ total_input = 0
    /\ total_output = 0
    /\ total_cache = 0
    /\ visited = <<>>
    /\ prev_run = None
    /\ environ = EmptyMap
    /\ ResolveIdle
    /\ BuildIdle

AggregateNext ==
    \/ AggEnter
    \/ NextFile
    \/ ReadLine
    \/ EndOfFile
    \/ WriteContext
    \/ AggregateAgain

AggregateInit == AggregateInitOver(UsageLines, MaxLines)
ShapesInit    == AggregateInitOver(ShapeLines, MaxShapeLines)

SpecAggregate == AggregateInit /\ [][AggregateNext]_vars
SpecShapes    == ShapesInit /\ [][AggregateNext]_vars

-----------------------------------------------------------------------------
(***************************************************************************)
(* The Binary Resolver                                                     *)
(***************************************************************************)

\* DILIGENT_BINARY_PATH is set and names a path that does not exist.
OverrideMissing ==
    /\ "DILIGENT_BINARY_PATH" \in DOMAIN environ
    /\ environ["DILIGENT_BINARY_PATH"] \notin fs \cup {CurDir}

\* DILIGENT_BINARY_PATH is unset or empty.
NoOverride ==
    "DILIGENT_BINARY_PATH" \in DOMAIN environ => environ["DILIGENT_BINARY_PATH"] = <<>>

\* The fallback candidate exists under the working-tree root git reports.
FallbackExists == "root" \in DOMAIN git /\ Candidate(git.root) \in fs

\* C3: when the override DILIGENT_BINARY_PATH is configured and names a path
\* that does not exist, git is never run, no path is ever returned, and the
\* call ends with the FileNotFoundError about the override, also when the
\* fallback dist/diligent-linux-x64 exists.
C3_MissingOverrideIsHardError ==
    OverrideMissing =>
        /\ ~git_called
        /\ "returns" \notin DOMAIN result
        /\ rpc = "done" =>
              /\ "raises" \in DOMAIN result
              /\ result.raises = "FileNotFoundError"
              /\ result = OverrideMissingError(environ["DILIGENT_BINARY_PATH"])

\* C3's case: the call has ended, the override is missing, the fallback exists.
C3_Witness == rpc = "done" /\ OverrideMissing /\ FallbackExists

\* C10: with no override configured, when the fallback candidate does not
\* exist or git cannot tell the working-tree root, the call ends with a
\* FileNotFoundError that names both DILIGENT_BINARY_PATH and the build
\* step; and a returned path always exists.
C10_NoBinaryNamesBothRemedies ==
    rpc = "done" =>
        /\ NoOverride /\ ~FallbackExists =>
              /\ "raises" \in DOMAIN result
              /\ result.raises = "FileNotFoundError"
              /\ {"DILIGENT_BINARY_PATH", "bun run build:linux-x64"} \subseteq result.names
        /\ "returns" \in DOMAIN result =>
              result.returns \in fs \cup {CurDir}

\* C10's case: no override, a working-tree root, no binary under it.
C10_Witness ==
    /\ rpc = "done"
    /\ "DILIGENT_BINARY_PATH" \notin DOMAIN environ
    /\ "root" \in DOMAIN git
    /\ Candidate(git.root) \notin fs
    /\ git_called

-----------------------------------------------------------------------------
(***************************************************************************)
(* The Invocation Builder                                                  *)
(***************************************************************************)

\* The environment of the agent-run step of the returned commands.
Overlay == The(The(commands)[1].env)

\* C6: every key of the extra environment has, in the overlay of the
\* agent-run step, the value the extra environment gives it.
C6_ExtraEnvWins ==
    bpc = "done" =>
        \A k \in DOMAIN extra_env :
            k \in DOMAIN Overlay /\ Overlay[k] = extra_env[k]

\* C6's case: the extra environment gives ANTHROPIC_API_KEY, which the
\* ambient environment sets to another value, and DILIGENT_MODEL, which a
\* configured model identifier derives.
C6_Witness ==
    /\ bpc = "done"
    /\ "ANTHROPIC_API_KEY" \in DOMAIN extra_env
    /\ "ANTHROPIC_API_KEY" \in DOMAIN environ
    /\ environ["ANTHROPIC_API_KEY"] # extra_env["ANTHROPIC_API_KEY"]
    /\ "DILIGENT_MODEL" \in DOMAIN extra_env
    /\ Truthy(model_name)

\* C7: every key of the overlay is a key of the extra environment, or
\* DILIGENT_MODEL with a model identifier configured, or ANTHROPIC_API_KEY or
\* OPENAI_API_KEY set in the ambient environment and carrying its value; and
\* a call made after the ambient environment changed outside these two
\* variables builds the overlay of the call before.
C7_OnlyAllowListForwarded ==
    bpc = "done" =>
        /\ \A k \in DOMAIN Overlay :
              \/ k \in DOMAIN extra_env
              \/ k = "DILIGENT_MODEL" /\ Truthy(model_name)
              \/ /\ k \in {"ANTHROPIC_API_KEY", "OPENAI_API_KEY"}
                 /\ k \in DOMAIN environ
                 /\ Overlay[k] = environ[k]
        /\ prev_env # None => Overlay = The(prev_env)

\* C7's case: a second call, with a secret and a DILIGENT_MODEL in the ambient
\* environment that nothing asks for, and an API key that is forwarded.
C7_Witness ==
    /\ bpc = "done"
    /\ prev_env # None
    /\ "AWS_SECRET_ACCESS_KEY" \in DOMAIN environ
    /\ "DILIGENT_MODEL" \in DOMAIN environ
    /\ ~Truthy(model_name)
    /\ "DILIGENT_MODEL" \notin DOMAIN extra_env
    /\ "OPENAI_API_KEY" \in DOMAIN Overlay

\* r is what is left of s after its first '/', or s itself if it has none.
IsRemainder(s, r) ==
    IF \A i \in 1..Len(s) : s[i] # "/"
    THEN r = s
    ELSE \E i \in 1..Len(s) :
            /\ s[i] = "/"
            /\ \A j \in 1..(i - 1) : s[j] # "/"
            /\ Len(r) = Len(s) - i
            /\ \A j \in 1..Len(r) : r[j] = s[i + j]

\* C9: after the model step (line 79), DILIGENT_MODEL is the configured model
\* identifier with everything up to and including its first '/' removed, the
\* identifier itself if it has no '/', and is not set when no identifier is
\* configured.
C9_ModelIdIsRemainder ==
    bpc = "extra" =>
        IF Truthy(model_name)
        THEN /\ "DILIGENT_MODEL" \in DOMAIN env
             /\ IsRemainder(The(model_name), env["DILIGENT_MODEL"])
        ELSE "DILIGENT_MODEL" \notin DOMAIN env

\* C9's case: an identifier with a second '/', which the derived value keeps.
C9_Witness ==
    /\ bpc = "extra"
    /\ Truthy(model_name)
    /\ The(model_name)[1] # "/"
    /\ "DILIGENT_MODEL" \in DOMAIN env
    /\ Contains(env["DILIGENT_MODEL"], "/")

-----------------------------------------------------------------------------
(***************************************************************************)
(* The Usage Aggregator                                                    *)
(***************************************************************************)

\* Every line of every *.jsonl file of the directory, by file and number.
Positions ==
    UNION {{<<f, i>> : i \in 1..Len(files[f])} :
           f \in {g \in DOMAIN files : g[2] = "jsonl"}}

LineAt(p) == files[p[1]][p[2]]

\* The line is a JSON object of type "message" whose message is an object
\* of role "assistant".
IsAssistantMessage(line) ==
    /\ "json" \in DOMAIN line
    /\ IsObj(line.json)
    /\ "type" \in DOMAIN line.json.obj
    /\ line.json.obj["type"] = JStr("message")
    /\ "message" \in DOMAIN line.json.obj
    /\ IsObj(line.json.obj["message"])
    /\ "role" \in DOMAIN line.json.obj["message"].obj
    /\ line.json.obj["message"].obj["role"] = JStr("assistant")

\* The count an assistant message carries in a field of its usage; a
\* missing usage or field counts 0, and so does any other line.
Tokens(line, field) ==
    IF ~IsAssistantMessage(line) THEN 0
    ELSE LET msg == line.json.obj["message"].obj
         IN  IF "usage" \notin DOMAIN msg THEN 0
             ELSE IF ~IsObj(msg["usage"]) THEN 0
             ELSE IF field \notin DOMAIN msg["usage"].obj THEN 0
             ELSE IF ~IsNum(msg["usage"].obj[field]) THEN 0
             ELSE msg["usage"].obj[field].num

RECURSIVE SumTokens(_, _)
SumTokens(P, field) ==
    IF P = {} THEN 0
    ELSE LET p == CHOOSE q \in P : TRUE
         IN  Tokens(LineAt(p), field) + SumTokens(P \ {p}, field)

\* C1: populate_context_post_run never raises, whatever the lines hold.
C1_NeverRaises == apc # "raised"

ZeroContext == [n_input_tokens |-> Some(0), n_output_tokens |-> Some(0),
                n_cache_tokens |-> None]

\* The directory exists and holds no *.jsonl file.
NoJsonlFile == sessions_exists /\ \A f \in DOMAIN files : f[2] # "jsonl"

\* C2 as claimed: after a run against a sessions directory that is missing
\* or holds no *.jsonl file, the context has input 0, output 0, cache None.
C2_ZeroWhenMissingOrEmpty ==
    apc = "returned" /\ (~sessions_exists \/ NoJsonlFile) => context = ZeroContext

\* C2 as amended: after a run against a sessions directory that exists and
\* holds no *.jsonl file the context has input 0, output 0, cache None; with
\* the directory missing no step of the call changes the context.
C2_ZeroWhenEmptyUntouchedWhenMissing ==
    /\ [](apc = "returned" /\ NoJsonlFile => context = ZeroContext)
    /\ [][~sessions_exists => context' = context]_vars

\* C2's case: the call has returned, the directory is missing, and the
\* context holds the numbers it held before.
C2_Witness == apc = "returned" /\ ~sessions_exists /\ context = UsedContext

\* C4: the input and output totals written are the sums of inputTokens and
\* outputTokens over the assistant messages of the *.jsonl files.
C4_TotalsAreAssistantSums ==
    apc = "returned" /\ sessions_exists =>
        /\ context.n_input_tokens = Some(SumTokens(Positions, "inputTokens"))
        /\ context.n_output_tokens = Some(SumTokens(Positions, "outputTokens"))

\* C4's case: the two assistant messages of the example and a user message
\* with usage of its own; the totals are 13 and 7.
C4_Witness ==
    /\ apc = "returned"
    /\ sessions_exists
    /\ \E p, q, r \in Positions :
          LineAt(p) = AssistantA /\ LineAt(q) = AssistantB /\ LineAt(r) = UserLine
    /\ context.n_input_tokens = Some(13)
    /\ context.n_output_tokens = Some(7)

\* C5: after a run against an existing directory, n_cache_tokens is the sum
\* of cacheReadTokens and cacheWriteTokens over the assistant messages when
\* that sum is greater than 0, and None otherwise; it is never 0.
C5_CachePresentIffPositive ==
    apc = "returned" /\ sessions_exists =>
        LET c == SumTokens(Positions, "cacheReadTokens")
                 + SumTokens(Positions, "cacheWriteTokens")
        IN  /\ context.n_cache_tokens # None <=> c > 0
            /\ c > 0 => context.n_cache_tokens = Some(c)
            /\ context.n_cache_tokens # Some(0)

\* C5's case: assistant messages are counted and none of them has used the
\* cache, so the cache total is None beside an input total that is not 0.
C5_Witness ==
    /\ apc = "returned"
    /\ sessions_exists
    /\ \E p \in Positions : LineAt(p) = AssistantA
    /\ context.n_input_tokens # Some(0)
    /\ context.n_cache_tokens = None

\* C8: a call that follows another on the same directory ends as that one
\* did, with the same totals, whatever the order in which each of the two
\* visited the files.
C8_OrderIndependent ==
    apc \in {"returned", "raised"} /\ prev_run # None =>
        /\ The(prev_run).outcome = apc
        /\ The(prev_run).context = context

\* C8's case: two calls that visited the two files in different orders, the
\* files holding different assistant messages.
C8_Witness ==
    /\ apc = "returned"
    /\ prev_run # None
    /\ Len(visited) = 2
    /\ The(prev_run).visited # visited
    /\ \E i \in 1..Len(files[FileA]) : files[FileA][i] = AssistantA
    /\ \E i \in 1..Len(files[FileB]) : files[FileB][i] = AssistantB

=============================================================================
